---- MODULE Spec2Model ----
(***************************************************************************)
(* A model of sync/gitlab.go: the GitLab backend of pet's snippet sync.    *)
(* Each process is one run of the tool: it owns a configuration record    *)
(* (config.Conf.GitLab plus the environment), builds a GitLabClient with  *)
(* NewGitLabClient and calls GetSnippet and UploadSnippet on it.  The      *)
(* GitLab service is the shared state the processes talk to; every        *)
(* request is one atomic step of the service.                             *)
(***************************************************************************)
EXTENDS Integers, Sequences, FiniteSets, TLC

\* ------------------------------------------------------------------ bounds
MaxId  == 2          \* snippet ids the service can hand out are 1..MaxId
MaxOps == 3          \* GetSnippet/UploadSnippet calls the processes may start

\* Two installations of the tool talk to one service: "a", whose configuration
\* is arbitrary, and "b", a second user of the same service.
Procs == {"a", "b"}

\* ------------------------------------------------------- program constants
Title       == "pet-snippet"
Description == "Snippet file generated by pet"
CreateCtx   == "Failed to create GitLab Snippet"
UpdateCtx   == "Failed to update GitLab Snippet"
NoIDFmt     == "No GitLab Snippet ID (%d)"
GetFmt      == "Failed to get GitLab Snippet (ID: %d)"
NoFileFmt   == "No snippet file in GitLab Snippet (ID: %d)"
ContentFmt  == "Failed to get GitLab Snippet content (ID: %d)"
EmptyFmt    == "%s is empty"
NoTokenMsg  == "access_token is empty."
BadIDFmt    == "Invalid GitLab Snippet ID: %d"

\* --------------------------------------------------------- inputs (small)
Contents   == {"", "a", "b"}                 \* snippet file contents
FileNames  == {"pet-snippet.toml", "other.toml"}
Tokens     == {"", "T1"}                     \* config.Conf.GitLab.AccessToken
EnvTokens  == {"", "T2"}                     \* $PET_GITLAB_ACCESS_TOKEN
Visibility == "private"                      \* config.Conf.GitLab.Visibility
\* config.Conf.GitLab.Url: unset, or text that does not parse as a URL
BadUrl     == ":"
Urls       == {"", BadUrl}
DefaultUrl == "https://git.mydomain.com/api/v4"
NewClientFmt == "Failed to create GitLab client: %d"
\* config.Conf.GitLab.ID is text: a sequence of characters
IdStrings  == { <<>>, <<"0">>, <<"1">>, <<"x">> }

\* ----------------------------------------------------------------- errors
\* An error is the chain of its frames, outermost first; nil is <<>>.
\* A frame is a format string with the integers and strings it was given.
Frame(msg, ids, strs) == [msg |-> msg, ids |-> ids, strs |-> strs]
Errorf(msg, ids, strs) == << Frame(msg, ids, strs) >>
Wrapf(err, msg, ids)   == << Frame(msg, ids, <<>>) >> \o err
Wrap(err, msg)         == Wrapf(err, msg, <<>>)
Nil == <<>>

\* -------------------------------------------------------------- strconv
DigitVal(ch) ==
  CASE ch = "0" -> 0 [] ch = "1" -> 1 [] ch = "2" -> 2 [] ch = "3" -> 3
    [] ch = "4" -> 4 [] ch = "5" -> 5 [] ch = "6" -> 6 [] ch = "7" -> 7
    [] ch = "8" -> 8 [] ch = "9" -> 9 [] OTHER -> -1

RECURSIVE ParseDigits(_, _)
\* value of the digit string s read after the value acc; -1 on a non-digit
ParseDigits(s, acc) ==
  IF s = <<>> THEN acc
  ELSE IF DigitVal(Head(s)) < 0 THEN -1
       ELSE ParseDigits(Tail(s), acc * 10 + DigitVal(Head(s)))

\* strconv.Atoi: optional sign, then at least one digit; (0, err) otherwise
Atoi(s) ==
  LET signed == s # <<>> /\ Head(s) \in {"+", "-"}
      body   == IF signed THEN Tail(s) ELSE s
      n      == IF body = <<>> THEN -1 ELSE ParseDigits(body, 0)
  IN  IF n < 0 THEN [n |-> 0, err |-> Errorf("strconv.Atoi", <<>>, <<>>)]
      ELSE [n |-> IF signed /\ Head(s) = "-" THEN 0 - n ELSE n, err |-> Nil]

DigitChar(d) ==
  CASE d = 0 -> "0" [] d = 1 -> "1" [] d = 2 -> "2" [] d = 3 -> "3"
    [] d = 4 -> "4" [] d = 5 -> "5" [] d = 6 -> "6" [] d = 7 -> "7"
    [] d = 8 -> "8" [] OTHER -> "9"

RECURSIVE Digits(_)
Digits(n) == IF n < 10 THEN << DigitChar(n) >>
             ELSE Digits(n \div 10) \o << DigitChar(n % 10) >>

\* the "%d" of fmt.Printf, as the user copies it into the configuration
Itoa(n) == IF n < 0 THEN << "-" >> \o Digits(0 - n) ELSE Digits(n)

\* ------------------------------------------------------------------ state
VARIABLES
  conf,    \* conf[p]: config.Conf.GitLab of process p (AccessToken, Url, ID, FileName)
  env,     \* env[p]: the value of $PET_GITLAB_ACCESS_TOKEN in process p
  g,       \* g[p]: the GitLabClient value of process p (Token of g.Client, ID)
  pc,      \* pc[p]: "start", "failed", "ready", or "content" inside GetSnippet
  snippet, \* snippet[p]: the local `snippet` of GetSnippet between its requests
  last,    \* last[p]: the call p made last: its requests, responses and result
  inst,    \* inst[p]: the UploadSnippet calls made on the current client value, their
           \*          requests, whether the first of them created a snippet, and
           \*          the ids they printed
  ops,     \* GetSnippet/UploadSnippet calls started so far
  remote,  \* the service's snippets; remote[i] is the snippet with id i
  pushed,  \* pushed[i]: what the last successful UploadSnippet to id i was given
  clock,   \* the service's time; a write stamps the snippet with it
  up       \* whether the service can be reached

vars == << conf, env, g, pc, snippet, last, inst, ops, remote, pushed, clock, up >>

\* a snippet as the service stores it
Obj(title, file, desc, content, vis, at) ==
  [Title |-> title, FileName |-> file, Description |-> desc,
   Content |-> content, Visibility |-> vis, UpdatedAt |-> at]

\* a snippet somebody else stored on the service before the tool ran
ForeignObj == Obj("notes", "other.toml", "", "", "public", 1)

NoObj == Obj("", "", "", "", "", 0)

Exists(i) == i \in 1..Len(remote)

\* ----------------------------------------------------- the GitLab service
\* A response is what go-gitlab hands back as (value, res, err): res is nil
\* when no HTTP response arrived, else it carries the status code.
NoResp        == [nil |-> TRUE,  StatusCode |-> 0, ID |-> 0, body |-> NoObj]
Status(code)  == [nil |-> FALSE, StatusCode |-> code, ID |-> 0, body |-> NoObj]
Found(code, i, o) == [nil |-> FALSE, StatusCode |-> code, ID |-> i, body |-> o]

\* err of a go-gitlab call that got the response res
LibErr(res) ==
  IF res.nil THEN Errorf("transport", <<>>, <<>>)
  ELSE IF res.StatusCode \in {200, 201} THEN Nil
  ELSE Errorf("gitlab.ErrorResponse", << res.StatusCode >>, <<>>)

\* GET /snippets/:id and GET /snippets/:id/raw
GetResponses(i) ==
  IF ~up THEN { NoResp }
  ELSE { IF Exists(i) THEN Found(200, i, remote[i]) ELSE Status(404), Status(500) }

\* POST /snippets: a new snippet gets the next id
CreateResponses(opt) ==
  IF ~up THEN { NoResp }
  ELSE { Status(500) } \cup
       ( IF Len(remote) < MaxId
           THEN { Found(201, Len(remote) + 1,
                        Obj(opt.Title, opt.FileName, opt.Description,
                            opt.Content, opt.Visibility, clock + 1)) }
           ELSE {} )

\* PUT /snippets/:id: the fields of opt replace the stored ones
UpdateResponses(i, opt) ==
  IF ~up THEN { NoResp }
  ELSE { IF Exists(i)
           THEN Found(200, i, Obj(opt.Title, opt.FileName, opt.Description,
                                  opt.Content, opt.Visibility, clock + 1))
           ELSE Status(404),
         Status(500) }

\* the service's snippets after it answered a create or update with res
Stored(res) ==
  IF res.nil \/ res.StatusCode \notin {200, 201} THEN remote
  ELSE IF res.ID = Len(remote) + 1 THEN Append(remote, res.body)
  ELSE [remote EXCEPT ![res.ID] = res.body]

\* ------------------------------------------------------------ bookkeeping
Req(kind, id) == [kind |-> kind, id |-> id]

NoCall == [op |-> "none", ret |-> "none", gid |-> 0, arg |-> "", file |-> "",
           reqs |-> <<>>, resps |-> <<>>, err |-> Nil, snip |-> <<>>,
           out |-> <<>>, up |-> TRUE]

NoInst == [pushes |-> 0, creates |-> 0, updates |-> 0, created |-> FALSE,
           ids |-> <<>>]

NoPush == [Content |-> "", FileName |-> "", at |-> 0]

\* ---------------------------------------------------------- the factory
\* a plausible slip: the environment is asked first
getGitlabAccessToken_EnvFirst(c, e) ==
  IF e # "" THEN [token |-> e, err |-> Nil]
  ELSE IF c.AccessToken # "" THEN [token |-> c.AccessToken, err |-> Nil]
  ELSE [token |-> "",
        err |-> Errorf("GitLab AccessToken not found in any source", <<>>, <<>>)]

\* getGitlabAccessToken: the configuration's token, else the environment's
getGitlabAccessToken(c, e) ==
  IF c.AccessToken # "" THEN [token |-> c.AccessToken, err |-> Nil]
  ELSE IF e # "" THEN [token |-> e, err |-> Nil]
  ELSE [token |-> "",
        err |-> Errorf("GitLab AccessToken not found in any source", <<>>, <<>>)]

\* the err of gitlab.NewClient(token, WithBaseURL(u), ...): u must parse
NewClientErr(u) ==
  IF u = BadUrl THEN Errorf("url.Parse", <<>>, << u >>) ELSE Nil

\* a plausible slip: the err of strconv.Atoi is not looked at
NewClientResult_AtoiUnchecked(c, e) ==
  LET tok == getGitlabAccessToken(c, e)
      u   == IF c.Url # "" THEN c.Url ELSE DefaultUrl
  IN  IF tok.err # Nil
        THEN [ok |-> FALSE, Token |-> "", ID |-> 0,
              err |-> Errorf(NoTokenMsg, <<>>, <<>>)]
      ELSE IF NewClientErr(u) # Nil
        THEN [ok |-> FALSE, Token |-> "", ID |-> 0,
              err |-> Wrapf(NewClientErr(u), NewClientFmt, << 0 >>)]
      ELSE [ok |-> TRUE, Token |-> tok.token, ID |-> Atoi(c.ID).n, err |-> Nil]

\* the (client, error) NewGitLabClient returns for configuration c, environment e
NewClientResult(c, e) ==
  LET tok == getGitlabAccessToken(c, e)
      u   == IF c.Url # "" THEN c.Url ELSE DefaultUrl
      id  == Atoi(c.ID)
  IN  IF tok.err # Nil
        THEN [ok |-> FALSE, Token |-> "", ID |-> 0,
              err |-> Errorf(NoTokenMsg, <<>>, <<>>)]
      ELSE IF NewClientErr(u) # Nil
        THEN [ok |-> FALSE, Token |-> "", ID |-> 0,
              err |-> Wrapf(NewClientErr(u), NewClientFmt, << 0 >>)]
      ELSE IF c.ID = <<>>
        THEN [ok |-> TRUE, Token |-> tok.token, ID |-> 0, err |-> Nil]
      ELSE IF id.err # Nil
        THEN [ok |-> FALSE, Token |-> "", ID |-> 0,
              err |-> Wrapf(id.err, BadIDFmt, << id.n >>)]
      ELSE [ok |-> TRUE, Token |-> tok.token, ID |-> id.n, err |-> Nil]

\* NewGitLabClient: builds the client value of p; no request is issued
NewGitLabClient(p) ==
  /\ pc[p] = "start"
  /\ LET r == NewClientResult(conf[p], env[p])
     IN  /\ pc' = [pc EXCEPT ![p] = IF r.ok THEN "ready" ELSE "failed"]
         /\ g' = [g EXCEPT ![p] = [Token |-> r.Token, ID |-> r.ID]]
         /\ last' = [last EXCEPT ![p] =
                       [NoCall EXCEPT !.op = "New", !.err = r.err,
                                      !.ret = IF r.ok THEN "ok" ELSE "err"]]
  /\ inst' = [inst EXCEPT ![p] = NoInst]
  /\ UNCHANGED << conf, env, snippet, ops, remote, pushed, clock, up >>

\* --------------------------------------------------------------- GetSnippet
\* a plausible slip: the unset test is missing
GetUnset_Never(id) == FALSE

\* `if g.ID == 0` of GetSnippet: the client has no snippet yet
GetUnset(id) == id = 0

\* a plausible slip: every failure gets the same context
MetaErr_Same(res, id) == Wrapf(LibErr(res), GetFmt, << id >>)

\* the error GetSnippet returns when the metadata request failed with a response
MetaErr(res, id) ==
  IF res.StatusCode = 404 THEN Wrapf(LibErr(res), NoIDFmt, << id >>)
  ELSE Wrapf(LibErr(res), GetFmt, << id >>)

\* a plausible slip: the file name is not compared
FileNameOK_Always(stored, filename) == TRUE

\* `snippet.FileName != filename` does not hold
FileNameOK(stored, filename) == stored = filename

\* a plausible slip: empty content is let through
ContentOK_Always(content) == TRUE

\* `content == ""` does not hold
ContentOK(content) == content # ""

\* a plausible slip: UpdatedAt is left at the zero time
SnippetOf_NoTime(content, meta) == << [Content |-> content, UpdatedAt |-> 0] >>

\* the *Snippet GetSnippet returns on success
SnippetOf(content, meta) == << [Content |-> content, UpdatedAt |-> meta.UpdatedAt] >>

\* GetSnippet up to its first request: the unset case, the metadata request,
\* the 404 test and the file name test
GetSnippet(p) ==
  /\ pc[p] = "ready"
  /\ ops < MaxOps
  /\ ops' = ops + 1
  /\ LET id   == g[p].ID
         call == [NoCall EXCEPT !.op = "Fetch", !.gid = id,
                                !.file = conf[p].FileName]
     IN  IF GetUnset(id)
           THEN /\ last' = [last EXCEPT ![p] =
                      [call EXCEPT !.ret = "ok", !.up = up,
                                   !.snip = << [Content |-> "", UpdatedAt |-> 0] >>]]
                /\ UNCHANGED << pc, snippet >>
           ELSE \E res \in GetResponses(id) :
                  LET sent == [call EXCEPT !.reqs = << Req("GetSnippet", id) >>,
                                           !.resps = << res >>]
                  IN  IF LibErr(res) # Nil
                        THEN IF res.nil
                               \* res.StatusCode on a nil res: the run panics
                               THEN /\ last' = [last EXCEPT ![p] =
                                                  [sent EXCEPT !.ret = "panic"]]
                                    /\ pc' = [pc EXCEPT ![p] = "start"]
                                    /\ UNCHANGED snippet
                               ELSE /\ last' = [last EXCEPT ![p] =
                                                  [sent EXCEPT !.ret = "err",
                                                       !.err = MetaErr(res, id)]]
                                    /\ UNCHANGED << pc, snippet >>
                      ELSE IF ~FileNameOK(res.body.FileName, conf[p].FileName)
                        THEN /\ last' = [last EXCEPT ![p] =
                                   [sent EXCEPT !.ret = "err",
                                        !.err = Errorf(NoFileFmt, << id >>, <<>>)]]
                             /\ UNCHANGED << pc, snippet >>
                      ELSE /\ last' = [last EXCEPT ![p] =
                                         [sent EXCEPT !.ret = "pending"]]
                           /\ pc' = [pc EXCEPT ![p] = "content"]
                           /\ snippet' = [snippet EXCEPT ![p] = res.body]
  /\ UNCHANGED << conf, env, g, inst, remote, pushed, clock, up >>

\* GetSnippet from its content request to its return
GetSnippetContent(p) ==
  /\ pc[p] = "content"
  /\ LET id == g[p].ID
     IN  \E res \in GetResponses(id) :
           LET sent == [last[p] EXCEPT
                          !.reqs = Append(@, Req("SnippetContent", id)),
                          !.resps = Append(@, res)]
           IN  last' = [last EXCEPT ![p] =
                 IF LibErr(res) # Nil
                   THEN [sent EXCEPT !.ret = "err",
                             !.err = Wrapf(LibErr(res), ContentFmt, << id >>)]
                 ELSE IF ~ContentOK(res.body.Content)
                   THEN [sent EXCEPT !.ret = "err",
                             !.err = Errorf(EmptyFmt, <<>>, << conf[p].FileName >>)]
                 ELSE [sent EXCEPT !.ret = "ok",
                           !.snip = SnippetOf(res.body.Content, snippet[p])]]
  /\ pc' = [pc EXCEPT ![p] = "ready"]
  /\ snippet' = [snippet EXCEPT ![p] = NoObj]
  /\ UNCHANGED << conf, env, g, inst, ops, remote, pushed, clock, up >>

\* ------------------------------------------------------------ UploadSnippet
\* `if g.ID == 0` of UploadSnippet, inverted
UploadUnset_Inverted(id) == id # 0

\* a plausible slip: UploadSnippet always updates
UploadUnset_Never(id) == FALSE

\* `if g.ID == 0` of UploadSnippet: create, else update
UploadUnset(id) == id = 0

\* a plausible slip: the title is sent as the file name
CreateOpt_TitleAsFile(c, content) ==
  [Title |-> Title, FileName |-> Title, Description |-> Description,
   Content |-> content, Visibility |-> c.Visibility]

\* the gitlab.CreateSnippetOptions createSnippet builds
CreateOpt(c, content) ==
  [Title |-> Title, FileName |-> c.FileName, Description |-> Description,
   Content |-> content, Visibility |-> c.Visibility]

\* a plausible slip: the content is left out of the update
UpdateOpt_NoContent(c, content) ==
  [Title |-> Title, FileName |-> c.FileName, Description |-> Description,
   Content |-> "", Visibility |-> c.Visibility]

\* a plausible slip: the title is sent as the file name of the update
UpdateOpt_TitleAsFile(c, content) ==
  [Title |-> Title, FileName |-> Title, Description |-> Description,
   Content |-> content, Visibility |-> c.Visibility]

\* the gitlab.UpdateSnippetOptions updateSnippet builds
UpdateOpt(c, content) ==
  [Title |-> Title, FileName |-> c.FileName, Description |-> Description,
   Content |-> content, Visibility |-> c.Visibility]

\* a plausible slip: the named result id, still 0, is returned instead of ret.ID
createSnippet_NamedResult(res) ==
  IF LibErr(res) # Nil THEN [id |-> -1, err |-> Wrap(LibErr(res), CreateCtx)]
  ELSE [id |-> 0, err |-> Nil]

\* the (id, err) createSnippet returns when its request got the response res
createSnippet(res) ==
  IF LibErr(res) # Nil THEN [id |-> -1, err |-> Wrap(LibErr(res), CreateCtx)]
  ELSE [id |-> res.ID, err |-> Nil]

\* the err updateSnippet returns when its request got the response res
updateSnippet(res) ==
  IF LibErr(res) # Nil THEN Wrap(LibErr(res), UpdateCtx) ELSE Nil

\* a plausible slip: the error of the branch is dropped
UploadErr_Dropped(err, ctx) == Nil

\* the error UploadSnippet returns for the err of the branch it took
UploadErr(err, ctx) == IF err # Nil THEN Wrap(err, ctx) ELSE Nil

\* a plausible slip: the id is printed before err is tested
Printed_Always(r) == << r.id >>

\* what UploadSnippet prints after createSnippet returned r: "GitLab Snippet ID: %d"
Printed(r) == IF r.err # Nil THEN <<>> ELSE << r.id >>

\* a pointer receiver that keeps the id of the snippet it created
IDAfterUpload_Kept(gid, r) == IF r.err = Nil THEN r.id ELSE gid

\* g.ID after UploadSnippet: the receiver is a value and nothing assigns to it
IDAfterUpload(gid, r) == gid

\* UploadSnippet(content): one create request or one update request
UploadSnippet(p, content) ==
  /\ pc[p] = "ready"
  /\ ops < MaxOps
  /\ ops' = ops + 1
  /\ LET id   == g[p].ID
         call == [NoCall EXCEPT !.op = "Push", !.gid = id,
                                !.arg = content, !.file = conf[p].FileName]
     IN  IF UploadUnset(id)
           THEN \E res \in CreateResponses(CreateOpt(conf[p], content)) :
                  LET r == createSnippet(res)
                  IN  /\ last' = [last EXCEPT ![p] =
                            [call EXCEPT !.reqs = << Req("CreateSnippet", 0) >>,
                                         !.resps = << res >>,
                                         !.err = UploadErr(r.err, CreateCtx),
                                         !.ret = IF UploadErr(r.err, CreateCtx) = Nil
                                                   THEN "ok" ELSE "err",
                                         !.out = Printed(r)]]
                      /\ g' = [g EXCEPT ![p].ID = IDAfterUpload(id, r)]
                      /\ inst' = [inst EXCEPT ![p].pushes = @ + 1,
                                              ![p].creates = @ + 1,
                                              ![p].created =
                                                  @ \/ (inst[p].pushes = 0 /\ r.err = Nil),
                                              ![p].ids = @ \o Printed(r)]
                      /\ remote' = Stored(res)
                      /\ clock' = IF Stored(res) # remote THEN clock + 1 ELSE clock
                      /\ pushed' = IF Stored(res) # remote
                                     THEN [pushed EXCEPT ![res.ID] =
                                            [Content |-> content,
                                             FileName |-> conf[p].FileName,
                                             at |-> clock + 1]]
                                     ELSE pushed
           ELSE \E res \in UpdateResponses(id, UpdateOpt(conf[p], content)) :
                  LET err == updateSnippet(res)
                  IN  /\ last' = [last EXCEPT ![p] =
                            [call EXCEPT !.reqs = << Req("UpdateSnippet", id) >>,
                                         !.resps = << res >>,
                                         !.err = UploadErr(err, UpdateCtx),
                                         !.ret = IF UploadErr(err, UpdateCtx) = Nil
                                                   THEN "ok" ELSE "err"]]
                      /\ inst' = [inst EXCEPT ![p].pushes = @ + 1,
                                              ![p].updates = @ + 1]
                      /\ remote' = Stored(res)
                      /\ clock' = IF Stored(res) # remote THEN clock + 1 ELSE clock
                      /\ pushed' = IF Stored(res) # remote
                                     THEN [pushed EXCEPT ![res.ID] =
                                            [Content |-> content,
                                             FileName |-> conf[p].FileName,
                                             at |-> clock + 1]]
                                     ELSE pushed
                      /\ UNCHANGED g
  /\ UNCHANGED << conf, env, pc, snippet, up >>

\* ------------------------------------------------------------ environment
\* The user copies the id UploadSnippet printed into the configuration and
\* runs the tool again.
PersistID(p) ==
  /\ pc[p] = "ready"
  /\ last[p].op = "Push"
  /\ last[p].out # <<>>
  /\ conf' = [conf EXCEPT ![p].ID = Itoa(last[p].out[1])]
  /\ pc' = [pc EXCEPT ![p] = "start"]
  /\ UNCHANGED << env, g, snippet, last, inst, ops, remote, pushed, clock, up >>

\* The network or the service goes down or comes back.
Toggle ==
  /\ up' = ~up
  /\ UNCHANGED << conf, env, g, pc, snippet, last, inst, ops, remote, pushed, clock >>

\* ------------------------------------------------------------ specification
\* the configurations a process may start with
Confs(p) ==
  IF p = "a"
    THEN [AccessToken : Tokens, Url : Urls, ID : IdStrings,
          FileName : {"pet-snippet.toml"}, Visibility : {Visibility}]
    ELSE [AccessToken : {"T1"}, Url : {""}, ID : { <<>>, <<"1">> },
          FileName : FileNames, Visibility : {Visibility}]

\* "a" starts with any credential under the default endpoint and no ID, or
\* with any endpoint and ID under the configuration's credential
Starts(c, e) ==
  \/ c.Url = "" /\ c.ID = <<>>
  \/ c.AccessToken # "" /\ e = ""

Init ==
  /\ conf \in { c \in [Procs -> UNION { Confs(p) : p \in Procs }] :
                  \A p \in Procs : c[p] \in Confs(p) }
  /\ env \in { e \in [Procs -> EnvTokens] : e["b"] = "" }
  /\ Starts(conf["a"], env["a"])
  /\ g = [p \in Procs |-> [Token |-> "", ID |-> 0]]
  /\ pc = [p \in Procs |-> "start"]
  /\ snippet = [p \in Procs |-> NoObj]
  /\ last = [p \in Procs |-> NoCall]
  /\ inst = [p \in Procs |-> NoInst]
  /\ ops = 0
  /\ remote \in { <<>>, << ForeignObj >> }
  /\ pushed = [i \in 1..MaxId |-> NoPush]
  /\ clock = 1
  /\ up = TRUE

Next ==
  \/ \E p \in Procs : NewGitLabClient(p)
  \/ \E p \in Procs : GetSnippet(p)
  \/ \E p \in Procs : GetSnippetContent(p)
  \/ \E p \in Procs : \E content \in Contents : UploadSnippet(p, content)
  \/ \E p \in Procs : PersistID(p)
  \/ Toggle

Spec == Init /\ [][Next]_vars

\* ------------------------------------------------------------- properties
Failed(res) == LibErr(res) # Nil

\* p's last call is a returned UploadSnippet / GetSnippet
Pushed(p)  == last[p].op = "Push"
Fetched(p) == last[p].op = "Fetch" /\ last[p].ret # "pending"

\* C1: UploadSnippet on a client whose ID is 0 issues one create request and
\* nothing else; on a client whose ID is set it issues one update request
\* for that ID and nothing else.
C1_PushDispatch ==
  \A p \in Procs :
    Pushed(p) =>
      IF last[p].gid = 0
        THEN last[p].reqs = << Req("CreateSnippet", 0) >>
        ELSE last[p].reqs = << Req("UpdateSnippet", last[p].gid) >>

C1_Witness ==
  \E p, q \in Procs :
    /\ Pushed(p) /\ last[p].gid = 0
    /\ Pushed(q) /\ last[q].gid # 0

\* C2 as stated: once the first UploadSnippet on a client with ID 0 created a
\* snippet, two calls on that client have issued one create and one update.
C2_SecondPushUpdates ==
  \A p \in Procs :
    (inst[p].created /\ inst[p].pushes = 2) =>
      (inst[p].creates = 1 /\ inst[p].updates = 1)

\* C2 amended: a successful create leaves the ID of the client at 0, so every
\* later UploadSnippet on that client creates again and none updates; only a
\* client whose ID is set updates, and it never creates.
C2_SecondPushCreates ==
  \A p \in Procs :
    /\ inst[p].created =>
         (g[p].ID = 0 /\ inst[p].creates = inst[p].pushes /\ inst[p].updates = 0)
    /\ (pc[p] \in {"ready", "content"} /\ g[p].ID # 0) =>
         (inst[p].creates = 0 /\ inst[p].updates = inst[p].pushes)

C2_Witness ==
  \E p \in Procs :
    inst[p].created /\ inst[p].pushes = 2 /\ Pushed(p) /\ last[p].ret = "ok"

\* the GetSnippet p returned from ran after the last successful UploadSnippet
\* to its ID, by a client with the same file name, and all its requests were
\* answered with what that call stored
FetchedAfterPush(p) ==
  /\ Fetched(p)
  /\ last[p].gid \in 1..MaxId
  /\ pushed[last[p].gid].at # 0
  /\ pushed[last[p].gid].Content # ""
  /\ pushed[last[p].gid].FileName = last[p].file
  /\ \A k \in 1..Len(last[p].resps) :
       /\ last[p].resps[k].StatusCode = 200
       /\ last[p].resps[k].body.UpdatedAt = pushed[last[p].gid].at

\* C3: a GetSnippet that follows a successful UploadSnippet(C), C non-empty,
\* to the same ID under the same file name, with no other upload in between
\* and no failed request, returns no error and Content = C.
C3_RoundTrip ==
  \A p \in Procs :
    FetchedAfterPush(p) =>
      /\ last[p].ret = "ok"
      /\ last[p].err = Nil
      /\ Len(last[p].snip) = 1
      /\ last[p].snip[1].Content = pushed[last[p].gid].Content

C3_Witness ==
  \E p \in Procs :
    /\ FetchedAfterPush(p)
    /\ conf[p].ID = Itoa(last[p].gid)
    /\ last[p].snip = << [Content |-> "a", UpdatedAt |-> pushed[last[p].gid].at] >>

\* C4: GetSnippet on a client whose ID is 0 returns the empty Snippet and no
\* error and issues no request, whether or not the service can be reached.
C4_UnsetFetch ==
  \A p \in Procs :
    (Fetched(p) /\ last[p].gid = 0) =>
      /\ last[p].ret = "ok"
      /\ last[p].err = Nil
      /\ last[p].snip = << [Content |-> "", UpdatedAt |-> 0] >>
      /\ last[p].reqs = <<>>

C4_Witness ==
  \E p \in Procs :
    Fetched(p) /\ last[p].gid = 0 /\ ~last[p].up /\ last[p].ret = "ok"

\* C5: when the create request succeeds UploadSnippet returns no error and
\* prints the id the service assigned, which is not 0; when it fails nothing
\* is printed.
C5_CreatePrintsID ==
  \A p \in Procs :
    (Pushed(p) /\ last[p].gid = 0 /\ Len(last[p].resps) = 1) =>
      IF Failed(last[p].resps[1])
        THEN last[p].out = <<>>
        ELSE /\ last[p].ret = "ok"
             /\ last[p].err = Nil
             /\ last[p].out = << last[p].resps[1].ID >>
             /\ last[p].resps[1].ID # 0

C5_Witness ==
  \E p, q \in Procs :
    /\ Pushed(p) /\ last[p].gid = 0 /\ last[p].out # <<>>
    /\ Pushed(q) /\ last[q].gid = 0 /\ Failed(last[q].resps[1])

\* C6: a step in which UploadSnippet's create or update request fails returns
\* an error, leaves the client's ID as it was (0 on the create branch) and
\* leaves every snippet on the service as it was.
C6_NoPartialFailure ==
  [][ \A p \in Procs :
        ( /\ inst'[p].pushes = inst[p].pushes + 1
          /\ Len(last'[p].resps) = 1
          /\ Failed(last'[p].resps[1]) ) =>
            /\ last'[p].ret = "err"
            /\ last'[p].err # Nil
            /\ g'[p] = g[p]
            /\ (last'[p].reqs[1].kind = "CreateSnippet" => g'[p].ID = 0)
            /\ remote' = remote ]_vars

C6_Witness ==
  \E p, q \in Procs :
    /\ Pushed(p) /\ last[p].gid = 0 /\ last[p].ret = "err"
    /\ Pushed(q) /\ Exists(last[q].gid) /\ last[q].ret = "err"

\* C7: when the metadata request of GetSnippet is answered 404, GetSnippet
\* returns no Snippet and the "No GitLab Snippet ID" error with the client's
\* ID; no other failed metadata request is reported with that context.
C7_FetchNotFound ==
  \A p \in Procs :
    (Fetched(p) /\ last[p].gid # 0 /\ last[p].ret = "err"
       /\ Failed(last[p].resps[1])) =>
      /\ last[p].snip = <<>>
      /\ last[p].reqs = << Req("GetSnippet", last[p].gid) >>
      /\ IF last[p].resps[1].StatusCode = 404
           THEN /\ last[p].err[1].msg = NoIDFmt
                /\ last[p].err[1].ids = << last[p].gid >>
           ELSE last[p].err[1].msg # NoIDFmt

C7_Witness ==
  \E p, q \in Procs :
    /\ Fetched(p) /\ last[p].gid # 0 /\ last[p].ret = "err"
    /\ Len(last[p].resps) = 1 /\ last[p].resps[1].StatusCode = 404
    /\ Fetched(q) /\ last[q].gid # 0 /\ last[q].ret = "err"
    /\ Len(last[q].resps) = 1 /\ last[q].resps[1].StatusCode = 500

\* the frames the client itself put around the cause
OwnFrames(err) == { err[k] : k \in 1..(Len(err) - 1) }

\* C8: when the update request of UploadSnippet is answered 404,
\* UploadSnippet returns an error whose context names the client's ID and
\* differs from the context of any other failed update; it issues no create
\* request and leaves the client's ID as it was.
C8_PushNotFound ==
  \A p \in Procs :
    (Pushed(p) /\ last[p].gid # 0 /\ last[p].resps[1].StatusCode = 404) =>
      /\ last[p].ret = "err"
      /\ \E f \in OwnFrames(last[p].err) : f.ids = << last[p].gid >>
      /\ last[p].err[1].msg # UploadErr(updateSnippet(Status(500)), UpdateCtx)[1].msg
      /\ last[p].reqs = << Req("UpdateSnippet", last[p].gid) >>
      /\ g[p].ID = last[p].gid

\* C9: when the snippet of the client's ID is stored under another file name
\* than the configured one, GetSnippet returns the "No snippet file" error
\* and no Snippet and issues no content request; a content request is only
\* ever the second request, after a metadata answer with the same file name.
C9_FileNameMismatch ==
  \A p \in Procs :
    (last[p].op = "Fetch" /\ last[p].gid # 0) =>
      /\ ( /\ last[p].resps[1].StatusCode = 200
           /\ last[p].resps[1].body.FileName # last[p].file ) =>
             /\ last[p].ret = "err"
             /\ last[p].err = Errorf(NoFileFmt, << last[p].gid >>, <<>>)
             /\ last[p].snip = <<>>
             /\ last[p].reqs = << Req("GetSnippet", last[p].gid) >>
      /\ \A k \in 1..Len(last[p].reqs) :
           last[p].reqs[k].kind = "SnippetContent" =>
             /\ k = 2
             /\ last[p].resps[1].StatusCode = 200
             /\ last[p].resps[1].body.FileName = last[p].file

C9_Witness ==
  \E p \in Procs :
    /\ Fetched(p) /\ last[p].gid # 0
    /\ last[p].resps[1].StatusCode = 200
    /\ last[p].resps[1].body.FileName # last[p].file

\* C10: when the content request is answered with zero-length content,
\* GetSnippet returns an error and no Snippet; a GetSnippet on a set ID that
\* returns no error never returns a Snippet with empty Content.
C10_EmptyContent ==
  \A p \in Procs :
    (Fetched(p) /\ last[p].gid # 0) =>
      /\ ( /\ Len(last[p].resps) = 2
           /\ last[p].resps[2].StatusCode = 200
           /\ last[p].resps[2].body.Content = "" ) =>
             /\ last[p].ret = "err"
             /\ last[p].err = Errorf(EmptyFmt, <<>>, << last[p].file >>)
             /\ last[p].snip = <<>>
      /\ last[p].ret = "ok" =>
           /\ last[p].err = Nil
           /\ Len(last[p].snip) = 1
           /\ last[p].snip[1].Content # ""

C10_Witness ==
  \E p \in Procs :
    /\ Fetched(p) /\ last[p].gid # 0
    /\ Len(last[p].resps) = 2
    /\ last[p].resps[2].StatusCode = 200
    /\ last[p].resps[2].body.Content = ""
    /\ last[p].resps[1].body.FileName = last[p].file

\* the client value NewGitLabClient leaves behind when it returns an error
NoClient == [Token |-> "", ID |-> 0]

\* p has a client, or was refused one, by the configuration it has now
Built(p) == pc[p] \in {"ready", "content", "failed"}

\* C11: with a token in the configuration the client is built with it, also
\* when the environment holds another one; with a token in the environment
\* only it is built with that one; with neither the factory returns the
\* access-token error and no client; the factory issues no request.
C11_CredentialPrecedence ==
  \A p \in Procs :
    /\ ( /\ Built(p) /\ conf[p].Url # BadUrl
         /\ (conf[p].ID = <<>> \/ Atoi(conf[p].ID).err = Nil) ) =>
         IF conf[p].AccessToken # ""
           THEN pc[p] # "failed" /\ g[p].Token = conf[p].AccessToken
         ELSE IF env[p] # ""
           THEN pc[p] # "failed" /\ g[p].Token = env[p]
         ELSE pc[p] = "failed"
    /\ (Built(p) /\ conf[p].AccessToken = "" /\ env[p] = "") =>
         /\ pc[p] = "failed"
         /\ g[p] = NoClient
         /\ last[p].err = Errorf(NoTokenMsg, <<>>, <<>>)
    /\ last[p].op = "New" => last[p].reqs = <<>>

C11_Witness ==
  \E p \in Procs :
    /\ pc[p] = "ready" /\ last[p].op = "New"
    /\ conf[p].AccessToken = "T1" /\ env[p] = "T2" /\ g[p].Token = "T1"

\* the factory of p got past the credential and the endpoint
Resolvable(p) ==
  /\ Built(p)
  /\ (conf[p].AccessToken # "" \/ env[p] # "")
  /\ conf[p].Url # BadUrl

\* C12: with a credential and a well-formed endpoint, an empty ID field gives
\* a client with ID 0, an ID field that parses as n gives a client with ID n,
\* and one that does not parse gives the invalid-ID error and no client; the
\* factory issues no request.
C12_IdentityResolution ==
  \A p \in Procs :
    /\ Resolvable(p) =>
         IF conf[p].ID = <<>>
           THEN pc[p] # "failed" /\ g[p].ID = 0
         ELSE IF Atoi(conf[p].ID).err = Nil
           THEN pc[p] # "failed" /\ g[p].ID = Atoi(conf[p].ID).n
         ELSE /\ pc[p] = "failed"
              /\ g[p] = NoClient
              /\ last[p].err[1].msg = BadIDFmt
    /\ (Resolvable(p) /\ conf[p].ID = << "1" >>) => g[p].ID = 1
    /\ (Resolvable(p) /\ conf[p].ID = << "x" >>) => pc[p] = "failed"
    /\ last[p].op = "New" => last[p].reqs = <<>>

C12_Witness ==
  \E p, q \in Procs :
    /\ Resolvable(p) /\ conf[p].ID = << "x" >> /\ last[p].op = "New"
    /\ last[p].ret = "err"
    /\ Resolvable(q) /\ conf[q].ID = << "1" >> /\ last[q].op = "New"
    /\ last[q].ret = "ok" /\ g[q].ID = 1

\* C13: the successful UploadSnippet calls made on one client while its ID
\* is 0 each create a snippet of their own: the ids they print are pairwise
\* different and each names a snippet on the service.
C13_CreateNotIdempotent ==
  \A p \in Procs :
    /\ \A i, j \in 1..Len(inst[p].ids) :
         i # j => inst[p].ids[i] # inst[p].ids[j]
    /\ \A i \in 1..Len(inst[p].ids) : Exists(inst[p].ids[i])
    /\ Len(inst[p].ids) <= inst[p].creates
    /\ Len(inst[p].ids) <= Len(remote)

C13_Witness ==
  \E p \in Procs :
    /\ Len(inst[p].ids) = 2
    /\ g[p].ID = 0
    /\ Exists(inst[p].ids[1]) /\ Exists(inst[p].ids[2])
    /\ inst[p].ids[1] # inst[p].ids[2]

\* p's last call is an UploadSnippet whose update request succeeded
Updated(p) ==
  /\ Pushed(p) /\ last[p].gid # 0
  /\ Len(last[p].resps) = 1 /\ ~Failed(last[p].resps[1])

\* the service's time at which it applied the update of p's last call
AppliedAt(p) == last[p].resps[1].body.UpdatedAt

\* C14: when two clients with the same set ID both had their update request
\* succeed, both UploadSnippet calls returned no error and the snippet holds
\* exactly the content given to the call whose request the service applied
\* last.
C14_LastWriteWins ==
  \A p, q \in Procs :
    ( /\ p # q /\ Updated(p) /\ Updated(q)
      /\ last[p].gid = last[q].gid
      /\ AppliedAt(q) < AppliedAt(p) ) =>
        /\ last[p].ret = "ok" /\ last[p].err = Nil
        /\ last[q].ret = "ok" /\ last[q].err = Nil
        /\ remote[last[p].gid].UpdatedAt = AppliedAt(p)
        /\ remote[last[p].gid].Content = last[p].arg

C14_Witness ==
  \E p, q \in Procs :
    /\ p # q /\ Updated(p) /\ Updated(q)
    /\ last[p].gid = last[q].gid
    /\ AppliedAt(q) < AppliedAt(p)
    /\ last[p].arg = "b" /\ last[q].arg = "a"
    /\ remote[last[p].gid].Content = "b"

\* p's last call is a GetSnippet on a set ID that returned a Snippet
Got(p) ==
  /\ Fetched(p) /\ last[p].gid # 0 /\ last[p].ret = "ok"
  /\ Len(last[p].resps) = 2 /\ Len(last[p].snip) = 1

\* C15 as stated: the Content and the UpdatedAt GetSnippet returns were held
\* together by the snippet at one moment.  The service's time moves with
\* every write, so that moment is the one of the returned UpdatedAt, the
\* moment of the metadata request.
C15_PointInTime ==
  \A p \in Procs :
    Got(p) =>
      /\ last[p].snip[1].UpdatedAt = last[p].resps[1].body.UpdatedAt
      /\ last[p].snip[1].Content = last[p].resps[1].body.Content

\* C15 amended: the returned Content is the content the snippet held at the
\* content request and the returned UpdatedAt is the time it held at the
\* metadata request; the two were held together when no update was applied
\* between the two requests.
C15_TwoMoments ==
  \A p \in Procs :
    Got(p) =>
      /\ last[p].snip[1].UpdatedAt = last[p].resps[1].body.UpdatedAt
      /\ last[p].snip[1].Content = last[p].resps[2].body.Content
      /\ (last[p].resps[1].body.UpdatedAt = last[p].resps[2].body.UpdatedAt) =>
           last[p].snip[1].Content = last[p].resps[1].body.Content

C15_Witness ==
  \E p \in Procs :
    /\ Got(p)
    /\ last[p].resps[1].body.UpdatedAt < last[p].resps[2].body.UpdatedAt
    /\ last[p].resps[1].body.Content # last[p].resps[2].body.Content

\* C16: every failed metadata request that was not answered 404, also one
\* that got no HTTP response, makes GetSnippet return the "Failed to get
\* GitLab Snippet" error with the client's ID around the cause; GetSnippet
\* always returns and never ends the run abnormally.
C16_MetaFailureWrapped ==
  \A p \in Procs :
    /\ last[p].ret # "panic"
    /\ ( /\ last[p].op = "Fetch" /\ last[p].gid # 0
         /\ Len(last[p].resps) = 1
         /\ Failed(last[p].resps[1])
         /\ (last[p].resps[1].nil \/ last[p].resps[1].StatusCode # 404) ) =>
           /\ last[p].ret = "err"
           /\ last[p].err = Wrapf(LibErr(last[p].resps[1]), GetFmt, << last[p].gid >>)

\* C17: after a successful update, and until the next write, the snippet
\* holds the fixed title and description, the configured file name and
\* visibility and the given content, whatever it held before; a GetSnippet
\* under the same file name that reads what a successful UploadSnippet stored
\* does not fail with the file name error.
C17_FullOverwrite ==
  /\ \A p \in Procs :
       (Updated(p) /\ remote[last[p].gid].UpdatedAt = AppliedAt(p)) =>
         remote[last[p].gid] =
           Obj(Title, last[p].file, Description, last[p].arg,
               conf[p].Visibility, AppliedAt(p))
  /\ \A q \in Procs :
       ( /\ last[q].op = "Fetch" /\ last[q].gid \in 1..MaxId
         /\ Len(last[q].resps) >= 1
         /\ last[q].resps[1].StatusCode = 200
         /\ last[q].resps[1].body.UpdatedAt = pushed[last[q].gid].at
         /\ pushed[last[q].gid].FileName = last[q].file ) =>
           /\ last[q].resps[1].body.FileName = last[q].file
           /\ last[q].err # Errorf(NoFileFmt, << last[q].gid >>, <<>>)

\* the one write so far is an update of the snippet that was there before
C17_Witness ==
  \E p, q \in Procs :
    /\ Updated(p) /\ last[p].gid = 1 /\ clock = 2 /\ Len(remote) = 1
    /\ remote[1] = Obj(Title, last[p].file, Description, "a", Visibility, 2)
    /\ remote[1].FileName # ForeignObj.FileName
    /\ last[q].op = "Fetch" /\ last[q].gid = 1 /\ last[q].file = last[p].file
    /\ last[q].resps[1].body = remote[1]

\* the innermost frame of err: the cause the wrapping keeps
Cause(err) == << err[Len(err)] >>

\* C18: GetSnippet issues at most two requests, the metadata request and then
\* at most one content request, and UploadSnippet issues exactly one; a call
\* one of whose requests failed issued no request after it and returned an
\* error that carries the failure.
C18_NoRetry ==
  \A p \in Procs :
    /\ last[p].op = "Fetch" =>
         /\ Len(last[p].reqs) <= 2
         /\ \A k \in 1..Len(last[p].reqs) :
              last[p].reqs[k].kind =
                (IF k = 1 THEN "GetSnippet" ELSE "SnippetContent")
    /\ last[p].op = "Push" => Len(last[p].reqs) = 1
    /\ \A k \in 1..Len(last[p].resps) :
         Failed(last[p].resps[k]) =>
           /\ k = Len(last[p].reqs)
           /\ last[p].ret = "err"
           /\ last[p].err # Nil
           /\ Cause(last[p].err) = LibErr(last[p].resps[k])

\* p holds a client built from a non-empty ID field
BuiltFromID(p) == pc[p] \in {"ready", "content"} /\ conf[p].ID # <<>>

\* C19 as stated: a client built from a non-empty ID field has its ID set:
\* its GetSnippet issues the metadata request and its UploadSnippet updates.
C19_NonEmptyIsSet ==
  \A p \in Procs :
    BuiltFromID(p) =>
      /\ last[p].op = "Fetch" =>
           (Len(last[p].reqs) >= 1 /\ last[p].reqs[1].kind = "GetSnippet")
      /\ last[p].op = "Push" =>
           last[p].reqs = << Req("UpdateSnippet", Atoi(conf[p].ID).n) >>

\* C19 amended: that holds when the ID field parses as an integer other than
\* 0; a field that parses as 0, such as "0", gives a client whose ID is
\* unset: its GetSnippet returns the empty Snippet without a request and its
\* UploadSnippet creates.
C19_ZeroIsUnset ==
  \A p \in Procs :
    BuiltFromID(p) =>
      IF Atoi(conf[p].ID).n # 0
        THEN /\ g[p].ID = Atoi(conf[p].ID).n
             /\ last[p].op = "Fetch" =>
                  last[p].reqs[1] = Req("GetSnippet", g[p].ID)
             /\ last[p].op = "Push" =>
                  last[p].reqs = << Req("UpdateSnippet", g[p].ID) >>
        ELSE /\ g[p].ID = 0
             /\ last[p].op = "Fetch" =>
                  /\ last[p].reqs = <<>>
                  /\ last[p].snip = << [Content |-> "", UpdatedAt |-> 0] >>
             /\ last[p].op = "Push" =>
                  last[p].reqs = << Req("CreateSnippet", 0) >>

C19_Witness ==
  \E p \in Procs :
    /\ BuiltFromID(p) /\ conf[p].ID = << "0" >>
    /\ last[p].op = "Push" /\ last[p].ret = "ok"
    /\ last[p].reqs = << Req("CreateSnippet", 0) >>

====
